---- MODULE Spec2Model ----
(***************************************************************************)
(* Model of simulateur_trafic/models/vehicule.pyx: the Vehicule class      *)
(* (construction, avancer, changer_de_route, ajuster_vitesse, est_arrive)  *)
(* and the calls it makes into its Route collaborator.                     *)
(*                                                                         *)
(* Numbers. The C doubles of the class are modelled as exact integers:     *)
(*   - speeds in km/h, times in minutes;                                   *)
(*   - positions and distances in sixtieths of a kilometre, so that        *)
(*     deplacement = vitesse_effective * (delta_t / 60.0) km is exactly    *)
(*     vitesse_effective * delta_t units, and the default safety distance  *)
(*     0.05 km is 3 units.                                                 *)
(* NaN and infinities are outside the model.                               *)
(***************************************************************************)
EXTENDS Integers, Sequences, FiniteSets, TLC

VARIABLES
    vehicules,    \* the Vehicule objects, in order of construction
    compteur_id,  \* Vehicule._compteur_id
    appels,       \* calls into Route made by the last operation, in order
    dernier,      \* the last operation: its name, some arguments, its result
    membres,      \* for each route, the vehicles its membership set holds
    pilote        \* the driver's loop: the time step and whose turn it is

vars == <<vehicules, compteur_id, appels, dernier, membres, pilote>>

----------------------------------------------------------------------------
(* Bounds of the model *)

MaxTemps == 2        \* |temps_trajet| stays within this many minutes
MaxDistance == 30    \* |distance_parcourue| and -position stay within this

(* The routes handed to the vehicles. Route is an external collaborator:   *)
(* the vehicle reads its longueur (here 10/60 km and 30/60 km) and its     *)
(* limite_vitesse (km/h), and calls retirer_vehicule and ajouter_vehicule. *)
None == "None"
Routes == {"R1", "R2"}
RoutesOuNone == Routes \cup {None}

Longueur(r) == IF r = "R1" THEN 10 ELSE 30
LimiteVitesse(r) == IF r = "R1" THEN 20 ELSE 140

(* Arguments the callers pass; the constructor and the methods validate    *)
(* none of them, so negative values are among them.                        *)
VitessesInitiales == {-20, 0, 125}
PositionsInitiales == {-5, 0, 40}
DeltaTs == {-1, 0, 1, 2}
PositionsDevant == {-2, 2, 4, 12}
VitessesDevant == {-20, 5, 50}

----------------------------------------------------------------------------
(* Program constants *)

VitesseMaxDefaut == 130        \* self.vitesse_max = 130.0
DistanceSecuriteDefaut == 3    \* distance_securite = 0.05 km = 3/60 km
AccelerationLibre == 10        \* self.vitesse + 10
Freinage == 10                 \* v_devant - 10
AccelerationSuivi == 5         \* self.vitesse + 5

DistancesSecurite == {DistanceSecuriteDefaut, 2 * DistanceSecuriteDefaut}

----------------------------------------------------------------------------
(* Helpers *)

Min2(a, b) == IF a <= b THEN a ELSE b
Max2(a, b) == IF a >= b THEN a ELSE b
Min3(a, b, c) == Min2(Min2(a, b), c)
Abs(x) == IF x < 0 THEN -x ELSE x

RECURSIVE Chiffres(_)
Chiffres(n) == IF n < 10 THEN <<n>> ELSE Append(Chiffres(n \div 10), n % 10)

RECURSIVE Zeros(_)
Zeros(k) == IF k <= 0 THEN <<>> ELSE <<0>> \o Zeros(k - 1)

(* f"VEH_{n:04d}": the tag, then the decimal digits of n left-padded with  *)
(* zeros to a width of at least 4.                                         *)
Identifiant(n) == <<"VEH_">> \o Zeros(4 - Len(Chiffres(n))) \o Chiffres(n)

----------------------------------------------------------------------------
(* Vehicule.__init__ *)

NouveauVehicule(n, vitesse_initiale, position_initiale, route) ==
    [identifiant        |-> Identifiant(n),
     position           |-> position_initiale,
     vitesse            |-> vitesse_initiale,
     route_actuelle     |-> route,
     vitesse_max        |-> VitesseMaxDefaut,
     distance_parcourue |-> 0,
     temps_trajet       |-> 0]

(* Vehicule.avancer *)

(* Variant: the final test against route_actuelle.longueur is missing. *)
AvancerSansButee(v, delta_t) ==
    IF v.route_actuelle = None THEN v
    ELSE LET vitesse_effective ==
                 Min3(v.vitesse, LimiteVitesse(v.route_actuelle), v.vitesse_max)
             deplacement == vitesse_effective * delta_t
         IN  [v EXCEPT
                !.position = @ + deplacement,
                !.distance_parcourue = @ + deplacement,
                !.temps_trajet = @ + delta_t]

(* Variant: the test against route_actuelle.longueur is made before the   *)
(* displacement is added.                                                  *)
AvancerButeeAvant(v, delta_t) ==
    IF v.route_actuelle = None THEN v
    ELSE LET vitesse_effective ==
                 Min3(v.vitesse, LimiteVitesse(v.route_actuelle), v.vitesse_max)
             deplacement == vitesse_effective * delta_t
             p == IF v.position >= Longueur(v.route_actuelle)
                  THEN Longueur(v.route_actuelle) ELSE v.position
         IN  [v EXCEPT
                !.position = p + deplacement,
                !.distance_parcourue = @ + deplacement,
                !.temps_trajet = @ + delta_t]

(* Variant: distance_parcourue = deplacement instead of += deplacement. *)
AvancerOdometreEcrase(v, delta_t) ==
    IF v.route_actuelle = None THEN v
    ELSE LET vitesse_effective ==
                 Min3(v.vitesse, LimiteVitesse(v.route_actuelle), v.vitesse_max)
             deplacement == vitesse_effective * delta_t
             p == v.position + deplacement
         IN  [v EXCEPT
                !.position = IF p >= Longueur(v.route_actuelle)
                             THEN Longueur(v.route_actuelle) ELSE p,
                !.distance_parcourue = deplacement,
                !.temps_trajet = @ + delta_t]

(* Variant: temps_trajet is advanced before route_actuelle is tested. *)
AvancerTempsSansRoute(v, delta_t) ==
    IF v.route_actuelle = None THEN [v EXCEPT !.temps_trajet = @ + delta_t]
    ELSE LET vitesse_effective ==
                 Min3(v.vitesse, LimiteVitesse(v.route_actuelle), v.vitesse_max)
             deplacement == vitesse_effective * delta_t
             p == v.position + deplacement
         IN  [v EXCEPT
                !.position = IF p >= Longueur(v.route_actuelle)
                             THEN Longueur(v.route_actuelle) ELSE p,
                !.distance_parcourue = @ + deplacement,
                !.temps_trajet = @ + delta_t]

(* Variant: the displacement uses self.vitesse, not the capped speed. *)
AvancerSansPlafond(v, delta_t) ==
    IF v.route_actuelle = None THEN v
    ELSE LET deplacement == v.vitesse * delta_t
             p == v.position + deplacement
         IN  [v EXCEPT
                !.position = IF p >= Longueur(v.route_actuelle)
                             THEN Longueur(v.route_actuelle) ELSE p,
                !.distance_parcourue = @ + deplacement,
                !.temps_trajet = @ + delta_t]

AvancerVehicule(v, delta_t) ==
    IF v.route_actuelle = None THEN v
    ELSE LET vitesse_effective ==
                 Min3(v.vitesse, LimiteVitesse(v.route_actuelle), v.vitesse_max)
             deplacement == vitesse_effective * delta_t
             p == v.position + deplacement
         IN  [v EXCEPT
                !.position = IF p >= Longueur(v.route_actuelle)
                             THEN Longueur(v.route_actuelle) ELSE p,
                !.distance_parcourue = @ + deplacement,
                !.temps_trajet = @ + delta_t]

(* Vehicule.ajuster_vitesse. devant is TRUE when a vehicule_devant is      *)
(* passed, with pd and vd its position and vitesse; p_devant is -1.0 when  *)
(* none is passed, and v_devant is then never read.                        *)

(* Variant: the braking branch assigns v_devant - 10 without max(0.0, .). *)
AjusterSansPlancher(v, devant, pd, vd, distance_securite) ==
    IF v.route_actuelle = None THEN v
    ELSE LET p_devant == IF devant THEN pd ELSE -60
             limite == LimiteVitesse(v.route_actuelle)
         IN  IF p_devant < 0
             THEN [v EXCEPT !.vitesse =
                      Min3(v.vitesse + AccelerationLibre, limite, v.vitesse_max)]
             ELSE LET distance == p_devant - v.position
                  IN  IF distance < distance_securite
                      THEN [v EXCEPT !.vitesse = vd - Freinage]
                      ELSE IF distance < distance_securite * 2
                      THEN [v EXCEPT !.vitesse = vd]
                      ELSE [v EXCEPT !.vitesse =
                               Min3(v.vitesse + AccelerationSuivi, limite,
                                    v.vitesse_max)]

(* Variant: the branch without vehicule_devant leaves vitesse_max out of   *)
(* the min.                                                                *)
AjusterSansVitesseMax(v, devant, pd, vd, distance_securite) ==
    IF v.route_actuelle = None THEN v
    ELSE LET p_devant == IF devant THEN pd ELSE -60
             limite == LimiteVitesse(v.route_actuelle)
         IN  IF p_devant < 0
             THEN [v EXCEPT !.vitesse =
                      Min2(v.vitesse + AccelerationLibre, limite)]
             ELSE LET distance == p_devant - v.position
                  IN  IF distance < distance_securite
                      THEN [v EXCEPT !.vitesse = Max2(0, vd - Freinage)]
                      ELSE IF distance < distance_securite * 2
                      THEN [v EXCEPT !.vitesse = vd]
                      ELSE [v EXCEPT !.vitesse =
                               Min3(v.vitesse + AccelerationSuivi, limite,
                                    v.vitesse_max)]

(* Variant: the braking branch also moves the vehicle back to the safety   *)
(* distance behind the vehicule_devant.                                    *)
AjusterEtReculer(v, devant, pd, vd, distance_securite) ==
    IF v.route_actuelle = None THEN v
    ELSE LET p_devant == IF devant THEN pd ELSE -60
             limite == LimiteVitesse(v.route_actuelle)
         IN  IF p_devant < 0
             THEN [v EXCEPT !.vitesse =
                      Min3(v.vitesse + AccelerationLibre, limite, v.vitesse_max)]
             ELSE LET distance == p_devant - v.position
                  IN  IF distance < distance_securite
                      THEN [v EXCEPT !.vitesse = Max2(0, vd - Freinage),
                                     !.position = p_devant - distance_securite]
                      ELSE IF distance < distance_securite * 2
                      THEN [v EXCEPT !.vitesse = vd]
                      ELSE [v EXCEPT !.vitesse =
                               Min3(v.vitesse + AccelerationSuivi, limite,
                                    v.vitesse_max)]

(* Variant: without a vehicule_devant the speed is capped but not raised.  *)
AjusterSansAcceleration(v, devant, pd, vd, distance_securite) ==
    IF v.route_actuelle = None THEN v
    ELSE LET p_devant == IF devant THEN pd ELSE -60
             limite == LimiteVitesse(v.route_actuelle)
         IN  IF p_devant < 0
             THEN [v EXCEPT !.vitesse = Min3(v.vitesse, limite, v.vitesse_max)]
             ELSE LET distance == p_devant - v.position
                  IN  IF distance < distance_securite
                      THEN [v EXCEPT !.vitesse = Max2(0, vd - Freinage)]
                      ELSE IF distance < distance_securite * 2
                      THEN [v EXCEPT !.vitesse = vd]
                      ELSE [v EXCEPT !.vitesse =
                               Min3(v.vitesse + AccelerationSuivi, limite,
                                    v.vitesse_max)]

AjusterVehicule(v, devant, pd, vd, distance_securite) ==
    IF v.route_actuelle = None THEN v
    ELSE LET p_devant == IF devant THEN pd ELSE -60
             limite == LimiteVitesse(v.route_actuelle)
         IN  IF p_devant < 0
             THEN [v EXCEPT !.vitesse =
                      Min3(v.vitesse + AccelerationLibre, limite, v.vitesse_max)]
             ELSE LET distance == p_devant - v.position
                  IN  IF distance < distance_securite
                      THEN [v EXCEPT !.vitesse = Max2(0, vd - Freinage)]
                      ELSE IF distance < distance_securite * 2
                      THEN [v EXCEPT !.vitesse = vd]
                      ELSE [v EXCEPT !.vitesse =
                               Min3(v.vitesse + AccelerationSuivi, limite,
                                    v.vitesse_max)]

(* Vehicule.changer_de_route: the vehicle after the call, the value        *)
(* returned, and the calls made into the routes, each with the vehicle's   *)
(* route_actuelle and position as the callee sees them.                    *)

Appel(hook, route, i, v) ==
    [hook |-> hook, route |-> route, veh |-> i,
     route_vue |-> v.route_actuelle, position_vue |-> v.position]

(* Variant: nouvelle_route is tested only after the vehicle has been       *)
(* removed from its current route.                                         *)
ChangerGardeTardive(v, i, nouvelle_route) ==
    LET a0 == IF v.route_actuelle # None
              THEN <<Appel("retirer_vehicule", v.route_actuelle, i, v)>>
              ELSE <<>>
    IN  IF nouvelle_route = None
        THEN [veh |-> v, ret |-> "False", appels |-> a0]
        ELSE LET v1 == [v EXCEPT !.route_actuelle = nouvelle_route]
                 v2 == [v1 EXCEPT !.position = 0]
                 a1 == Append(a0, Appel("ajouter_vehicule", nouvelle_route, i, v2))
             IN  [veh |-> v2, ret |-> "True", appels |-> a1]

(* Variant: a transfer to the route the vehicle is already on returns at   *)
(* once.                                                                   *)
ChangerSaufMemeRoute(v, i, nouvelle_route) ==
    IF nouvelle_route = None
    THEN [veh |-> v, ret |-> "False", appels |-> <<>>]
    ELSE IF nouvelle_route = v.route_actuelle
    THEN [veh |-> v, ret |-> "True", appels |-> <<>>]
    ELSE LET a0 == IF v.route_actuelle # None
                   THEN <<Appel("retirer_vehicule", v.route_actuelle, i, v)>>
                   ELSE <<>>
             v1 == [v EXCEPT !.route_actuelle = nouvelle_route]
             v2 == [v1 EXCEPT !.position = 0]
             a1 == Append(a0, Appel("ajouter_vehicule", nouvelle_route, i, v2))
         IN  [veh |-> v2, ret |-> "True", appels |-> a1]

(* Variant: ajouter_vehicule is called first, retirer_vehicule last. *)
ChangerAjoutAvant(v, i, nouvelle_route) ==
    IF nouvelle_route = None
    THEN [veh |-> v, ret |-> "False", appels |-> <<>>]
    ELSE LET v1 == [v EXCEPT !.route_actuelle = nouvelle_route]
             v2 == [v1 EXCEPT !.position = 0]
             a0 == <<Appel("ajouter_vehicule", nouvelle_route, i, v2)>>
             a1 == IF v.route_actuelle # None
                   THEN Append(a0, Appel("retirer_vehicule", v.route_actuelle, i, v2))
                   ELSE a0
         IN  [veh |-> v2, ret |-> "True", appels |-> a1]

(* Variant: position is not reset on the new route. *)
ChangerSansRemise(v, i, nouvelle_route) ==
    IF nouvelle_route = None
    THEN [veh |-> v, ret |-> "False", appels |-> <<>>]
    ELSE LET a0 == IF v.route_actuelle # None
                   THEN <<Appel("retirer_vehicule", v.route_actuelle, i, v)>>
                   ELSE <<>>
             v1 == [v EXCEPT !.route_actuelle = nouvelle_route]
             a1 == Append(a0, Appel("ajouter_vehicule", nouvelle_route, i, v1))
         IN  [veh |-> v1, ret |-> "True", appels |-> a1]

(* Variant: nouvelle_route is not tested; with None the vehicle is removed *)
(* from its route and left without one.                                    *)
ChangerSansGarde(v, i, nouvelle_route) ==
    LET a0 == IF v.route_actuelle # None
              THEN <<Appel("retirer_vehicule", v.route_actuelle, i, v)>>
              ELSE <<>>
        v1 == [v EXCEPT !.route_actuelle = nouvelle_route]
        v2 == [v1 EXCEPT !.position = 0]
    IN  IF nouvelle_route = None
        THEN [veh |-> v2, ret |-> "False", appels |-> a0]
        ELSE [veh |-> v2, ret |-> "True",
              appels |-> Append(a0, Appel("ajouter_vehicule", nouvelle_route, i, v2))]

ChangerDeRoute(v, i, nouvelle_route) ==
    IF nouvelle_route = None
    THEN [veh |-> v, ret |-> "False", appels |-> <<>>]
    ELSE LET a0 == IF v.route_actuelle # None
                   THEN <<Appel("retirer_vehicule", v.route_actuelle, i, v)>>
                   ELSE <<>>
             v1 == [v EXCEPT !.route_actuelle = nouvelle_route]
             v2 == [v1 EXCEPT !.position = 0]
             a1 == Append(a0, Appel("ajouter_vehicule", nouvelle_route, i, v2))
         IN  [veh |-> v2, ret |-> "True", appels |-> a1]

(* Vehicule.est_arrive *)

(* Variant: position > longueur instead of >=. *)
EstArriveStrict(v) ==
    IF v.route_actuelle = None THEN FALSE
    ELSE v.position > Longueur(v.route_actuelle)

EstArrive(v) ==
    IF v.route_actuelle = None THEN FALSE
    ELSE v.position >= Longueur(v.route_actuelle)

(* Route.retirer_vehicule and Route.ajouter_vehicule, which keep the       *)
(* membership set of the route: the calls of one operation applied, in     *)
(* order, to the sets m.                                                   *)
RECURSIVE AppliquerAppels(_, _)
AppliquerAppels(m, as) ==
    IF as = <<>> THEN m
    ELSE LET a == Head(as)
             m1 == IF a.hook = "retirer_vehicule"
                   THEN [m EXCEPT ![a.route] = @ \ {a.veh}]
                   ELSE [m EXCEPT ![a.route] = @ \cup {a.veh}]
         IN  AppliquerAppels(m1, Tail(as))

Bool(b) == IF b THEN "True" ELSE "False"

----------------------------------------------------------------------------
(* The state machine: one vehicle under test, constructed with any of the  *)
(* arguments above; the vehicule_devant handed to ajuster_vitesse is any   *)
(* other Vehicule, given by its position and vitesse.                      *)

Op(op, i, dt, devant, r, ret) ==
    [op |-> op, veh |-> i, delta_t |-> dt, devant |-> devant,
     nouvelle_route |-> r, ret |-> ret]

SansPilote == [tour |-> 0, delta_t |-> 0]

Init ==
    /\ compteur_id = 1
    /\ \E vi \in VitessesInitiales, pi \in PositionsInitiales, r \in RoutesOuNone :
          /\ vehicules = <<NouveauVehicule(compteur_id, vi, pi, r)>>
          /\ dernier = Op("creer", 1, 0, FALSE, None, "None")
    /\ appels = <<>>
    /\ membres = [r \in Routes |-> {}]
    /\ pilote = SansPilote

DansLesBornes(v) ==
    /\ Abs(v.temps_trajet) <= MaxTemps
    /\ Abs(v.distance_parcourue) <= MaxDistance
    /\ v.position >= -MaxDistance

Avancer(i, dt) ==
    /\ DansLesBornes(AvancerVehicule(vehicules[i], dt))
    /\ vehicules' = [vehicules EXCEPT ![i] = AvancerVehicule(@, dt)]
    /\ appels' = <<>>
    /\ dernier' = Op("avancer", i, dt, FALSE, None, "None")
    /\ UNCHANGED <<compteur_id, membres, pilote>>

(* ajuster_vitesse() with no vehicule_devant *)
AjusterSeul(i, ds) ==
    /\ vehicules' = [vehicules EXCEPT ![i] = AjusterVehicule(@, FALSE, 0, 0, ds)]
    /\ appels' = <<>>
    /\ dernier' = Op("ajuster", i, 0, FALSE, None, "None")
    /\ UNCHANGED <<compteur_id, membres, pilote>>

(* ajuster_vitesse(vehicule_devant) with a vehicle at pd running at vd *)
AjusterDerriere(i, pd, vd, ds) ==
    /\ vehicules' = [vehicules EXCEPT ![i] = AjusterVehicule(@, TRUE, pd, vd, ds)]
    /\ appels' = <<>>
    /\ dernier' = Op("ajuster", i, 0, TRUE, None, "None")
    /\ UNCHANGED <<compteur_id, membres, pilote>>

Changer(i, r) ==
    /\ LET res == ChangerDeRoute(vehicules[i], i, r)
       IN  /\ vehicules' = [vehicules EXCEPT ![i] = res.veh]
           /\ appels' = res.appels
           /\ dernier' = Op("changer", i, 0, FALSE, r, res.ret)
           /\ membres' = AppliquerAppels(membres, res.appels)
    /\ UNCHANGED <<compteur_id, pilote>>

Arrive(i) ==
    /\ dernier' = Op("est_arrive", i, 0, FALSE, None, Bool(EstArrive(vehicules[i])))
    /\ appels' = <<>>
    /\ UNCHANGED <<vehicules, compteur_id, membres, pilote>>

Next ==
    \/ \E dt \in DeltaTs : Avancer(1, dt)
    \/ \E ds \in DistancesSecurite : AjusterSeul(1, ds)
    \/ \E pd \in PositionsDevant, vd \in VitessesDevant, ds \in DistancesSecurite :
          AjusterDerriere(1, pd, vd, ds)
    \/ \E r \in RoutesOuNone : Changer(1, r)
    \/ Arrive(1)

Spec == Init /\ [][Next]_vars

----------------------------------------------------------------------------
(* A fleet: vehicles constructed one after the other, with or without an   *)
(* initial route, and transferred between routes. The counter starts at 0  *)
(* or where earlier constructions have left it.                            *)

MaxVehicules == 2
CompteursInitiaux == {0, 9998}
VitessesFlotte == {0}
PositionsFlotte == {0, 4}

InitFlotte ==
    /\ vehicules = <<>>
    /\ compteur_id \in CompteursInitiaux
    /\ appels = <<>>
    /\ dernier = Op("aucune", 0, 0, FALSE, None, "None")
    /\ membres = [r \in Routes |-> {}]
    /\ pilote = SansPilote

(* Variant: the counter is not incremented. *)
CompteurFige(c) == c

(* Vehicule._compteur_id += 1 *)
CompteurSuivant(c) == c + 1

(* Vehicule(vi, pi, r): the constructor calls no method of the route. *)
Creer(vi, pi, r) ==
    /\ Len(vehicules) < MaxVehicules
    /\ compteur_id' = CompteurSuivant(compteur_id)
    /\ vehicules' = Append(vehicules, NouveauVehicule(compteur_id', vi, pi, r))
    /\ appels' = <<>>
    /\ dernier' = Op("creer", Len(vehicules) + 1, 0, FALSE, None, "None")
    /\ UNCHANGED <<membres, pilote>>

NextFlotte ==
    \/ \E vi \in VitessesFlotte, pi \in PositionsFlotte, r \in RoutesOuNone :
          Creer(vi, pi, r)
    \/ \E i \in DOMAIN vehicules, r \in RoutesOuNone : Changer(i, r)
    \/ \E i \in DOMAIN vehicules : Arrive(i)

SpecFlotte == InitFlotte /\ [][NextFlotte]_vars

----------------------------------------------------------------------------
(* A pair: two vehicles constructed on the same route (or without one),    *)
(* each adjusting its speed alone or behind the other.                     *)

PositionsPaire == {-5, 0, 4, 12}

InitPaire ==
    /\ compteur_id = 2
    /\ \E r \in RoutesOuNone :
       \E v1 \in VitessesInitiales, v2 \in VitessesInitiales :
       \E p1 \in PositionsPaire, p2 \in PositionsPaire :
          vehicules = <<NouveauVehicule(1, v1, p1, r), NouveauVehicule(2, v2, p2, r)>>
    /\ appels = <<>>
    /\ dernier = Op("creer", 2, 0, FALSE, None, "None")
    /\ membres = [r \in Routes |-> {}]
    /\ pilote = SansPilote

(* vehicules[i].ajuster_vitesse(vehicules[j], ds) *)
AjusterDerriereDe(i, j, ds) ==
    /\ i # j
    /\ vehicules' = [vehicules EXCEPT ![i] =
          AjusterVehicule(@, TRUE, vehicules[j].position, vehicules[j].vitesse, ds)]
    /\ appels' = <<>>
    /\ dernier' = Op("ajuster", i, 0, TRUE, None, "None")
    /\ UNCHANGED <<compteur_id, membres, pilote>>

NextPaire ==
    \/ \E i \in DOMAIN vehicules, ds \in DistancesSecurite : AjusterSeul(i, ds)
    \/ \E i \in DOMAIN vehicules, j \in DOMAIN vehicules, ds \in DistancesSecurite :
          AjusterDerriereDe(i, j, ds)

SpecPaire == InitPaire /\ [][NextPaire]_vars

----------------------------------------------------------------------------
(* Car following: vehicle 1 (the follower) behind vehicle 2 (the leader)   *)
(* on the same route.  Each tick the driver calls ajuster_vitesse then     *)
(* avancer(delta_t) on each vehicle, in an order fixed for the run; the    *)
(* follower is given the leader as vehicule_devant, the leader nothing.    *)

MaxTours == 3
Suiveur == 1
Meneur == 2
PositionsSuivi == {0, 5, 10}
VitessesSuivi == {0, 20, 125}
DeltaTsPilote == {1, 2}
Ordres == {<<Suiveur, Meneur>>, <<Meneur, Suiveur>>}

InitSuivi ==
    /\ compteur_id = 2
    /\ \E r \in Routes :
       \E v1 \in VitessesSuivi, v2 \in VitessesSuivi :
       \E p1 \in PositionsSuivi, p2 \in PositionsSuivi :
          /\ p1 <= p2
          /\ vehicules = <<NouveauVehicule(1, v1, p1, r), NouveauVehicule(2, v2, p2, r)>>
    /\ appels = <<>>
    /\ dernier = Op("creer", 2, 0, FALSE, None, "None")
    /\ membres = [r \in Routes |-> {}]
    /\ \E dt \in DeltaTsPilote, o \in Ordres :
          pilote = [tour |-> 0, delta_t |-> dt, ordre |-> o]

(* ajuster_vitesse (default distance_securite) then avancer(delta_t) *)
PasDeVehicule(v, devant, pd, vd, delta_t) ==
    AvancerVehicule(AjusterVehicule(v, devant, pd, vd, DistanceSecuriteDefaut), delta_t)

(* One tick of the driver over the two vehicles. *)
Tour ==
    /\ pilote.tour < MaxTours
    /\ LET dt == pilote.delta_t
           m0 == vehicules[Meneur]
           s0 == vehicules[Suiveur]
           m1 == PasDeVehicule(m0, FALSE, 0, 0, dt)
           s1 == IF pilote.ordre[1] = Suiveur
                 THEN PasDeVehicule(s0, TRUE, m0.position, m0.vitesse, dt)
                 ELSE PasDeVehicule(s0, TRUE, m1.position, m1.vitesse, dt)
       IN  /\ vehicules' = [vehicules EXCEPT ![Suiveur] = s1, ![Meneur] = m1]
           /\ dernier' = Op("tour", 0, dt, TRUE, None, "None")
    /\ pilote' = [pilote EXCEPT !.tour = @ + 1]
    /\ appels' = <<>>
    /\ UNCHANGED <<compteur_id, membres>>

NextSuivi == Tour

SpecSuivi == InitSuivi /\ [][NextSuivi]_vars

----------------------------------------------------------------------------
(* A journey: one vehicle on a route, no vehicule_devant.  The driver      *)
(* keeps running ajuster_vitesse() then avancer(delta_t), with a delta_t   *)
(* fixed for the run; the route is never changed.                          *)

MaxToursTrajet == 8

InitTrajet ==
    /\ compteur_id = 1
    /\ \E r \in Routes, vi \in VitessesInitiales, pi \in PositionsInitiales :
          vehicules = <<NouveauVehicule(1, vi, pi, r)>>
    /\ appels = <<>>
    /\ dernier = Op("creer", 1, 0, FALSE, None, "None")
    /\ membres = [r \in Routes |-> {}]
    /\ \E dt \in DeltaTsPilote : pilote = [tour |-> 0, delta_t |-> dt]

(* One tick of the driver over the single vehicle. *)
TourSeul ==
    /\ pilote.tour < MaxToursTrajet
    /\ vehicules' = [vehicules EXCEPT ![1] =
                        PasDeVehicule(@, FALSE, 0, 0, pilote.delta_t)]
    /\ dernier' = Op("tour", 1, pilote.delta_t, FALSE, None, "None")
    /\ pilote' = [pilote EXCEPT !.tour = @ + 1]
    /\ appels' = <<>>
    /\ UNCHANGED <<compteur_id, membres>>

NextTrajet == TourSeul

(* The driver keeps ticking: weak fairness of the tick. *)
SpecTrajet == InitTrajet /\ [][NextTrajet]_vars /\ WF_vars(NextTrajet)

----------------------------------------------------------------------------
(* The odometer: one vehicle constructed at position 0 on a route with a   *)
(* non-negative speed, then any sequence of ajuster_vitesse and            *)
(* avancer(delta_t > 0) calls, without changer_de_route.                   *)

VitessesOdometre == {0, 20, 125}

InitOdometre ==
    /\ compteur_id = 1
    /\ \E r \in Routes, vi \in VitessesOdometre :
          vehicules = <<NouveauVehicule(1, vi, 0, r)>>
    /\ appels = <<>>
    /\ dernier = Op("creer", 1, 0, FALSE, None, "None")
    /\ membres = [r \in Routes |-> {}]
    /\ pilote = SansPilote

NextOdometre ==
    \/ \E dt \in DeltaTsPilote : Avancer(1, dt)
    \/ \E ds \in DistancesSecurite : AjusterSeul(1, ds)
    \/ \E pd \in PositionsDevant, vd \in VitessesDevant, ds \in DistancesSecurite :
          AjusterDerriere(1, pd, vd, ds)

SpecOdometre == InitOdometre /\ [][NextOdometre]_vars

----------------------------------------------------------------------------
(* Properties *)

Vehs == DOMAIN vehicules
SurRoute(v) == v.route_actuelle # None
EnBout(v) == SurRoute(v) /\ v.position = Longueur(v.route_actuelle)

(* The step is a call of avancer (resp. ajuster_vitesse, changer_de_route) *)
(* on vehicle i.                                                           *)
PasAvancer(i) == dernier'.op = "avancer" /\ dernier'.veh = i
PasAjuster(i) == dernier'.op = "ajuster" /\ dernier'.veh = i
PasChanger(i) == dernier'.op = "changer" /\ dernier'.veh = i

(* min(vitesse, limite_vitesse, vitesse_max) >= 0 *)
VitesseEffectivePositive(v) ==
    /\ SurRoute(v)
    /\ v.vitesse >= 0
    /\ LimiteVitesse(v.route_actuelle) >= 0
    /\ v.vitesse_max >= 0

(* C1: right after avancer(delta_t) with delta_t > 0 on a vehicle that has *)
(* a route, position <= route_actuelle.longueur, whatever the state was    *)
(* before the call.                                                        *)
C1_PositionSousLongueur ==
    \A i \in Vehs :
        (dernier.op = "avancer" /\ dernier.veh = i /\ dernier.delta_t > 0
            /\ SurRoute(vehicules[i]))
        => vehicules[i].position <= Longueur(vehicules[i].route_actuelle)

(* C1 witness: an avancer with delta_t > 0 has just stopped a moving       *)
(* vehicle at the end of its route.                                        *)
C1_Temoin ==
    /\ dernier.op = "avancer" /\ dernier.delta_t > 0
    /\ EnBout(vehicules[1])
    /\ vehicules[1].vitesse > 0
    /\ vehicules[1].distance_parcourue > 0

(* C2, as stated: once position = route_actuelle.longueur, every further   *)
(* avancer(delta_t > 0), with any ajuster_vitesse in between, leaves the   *)
(* position at route_actuelle.longueur.                                    *)
C2_Original ==
    [][\A i \in Vehs :
          (EnBout(vehicules[i])
             /\ (PasAjuster(i) \/ (PasAvancer(i) /\ dernier'.delta_t > 0)))
          => EnBout(vehicules'[i])]_vars

(* C2, amended: a vehicle at route_actuelle.longueur stays there across    *)
(* ajuster_vitesse, and across avancer(delta_t > 0) whenever the effective *)
(* speed min(vitesse, limite_vitesse, vitesse_max) of that call is not     *)
(* negative.                                                               *)
C2_ResteEnBout ==
    [][\A i \in Vehs :
          (EnBout(vehicules[i])
             /\ \/ PasAjuster(i)
                \/ /\ PasAvancer(i)
                   /\ dernier'.delta_t > 0
                   /\ VitesseEffectivePositive(vehicules[i]))
          => EnBout(vehicules'[i])]_vars

(* C2 witness: an avancer with delta_t > 0 on a moving vehicle whose       *)
(* odometer had already passed the length of its route ends at the end of  *)
(* the route: the displacement was added, then cut.                        *)
C2_Temoin ==
    /\ dernier.op = "avancer" /\ dernier.delta_t > 0
    /\ EnBout(vehicules[1])
    /\ vehicules[1].vitesse > 0
    /\ vehicules[1].temps_trajet >= 2
    /\ vehicules[1].distance_parcourue
          >= Longueur(vehicules[1].route_actuelle)
             + vehicules[1].vitesse * dernier.delta_t

(* C3, as stated: distance_parcourue and temps_trajet never decrease       *)
(* across a call of avancer, for any delta_t.                              *)
C3_Original ==
    [][\A i \in Vehs :
          PasAvancer(i)
          => /\ vehicules'[i].distance_parcourue >= vehicules[i].distance_parcourue
             /\ vehicules'[i].temps_trajet >= vehicules[i].temps_trajet]_vars

(* C3, amended: distance_parcourue and temps_trajet do not decrease across *)
(* avancer(delta_t) when delta_t >= 0 and the vehicle has no route or its  *)
(* effective speed min(vitesse, limite_vitesse, vitesse_max) is not        *)
(* negative.                                                               *)
C3_Monotone ==
    [][\A i \in Vehs :
          (PasAvancer(i) /\ dernier'.delta_t >= 0
             /\ (SurRoute(vehicules[i]) => VitesseEffectivePositive(vehicules[i])))
          => /\ vehicules'[i].distance_parcourue >= vehicules[i].distance_parcourue
             /\ vehicules'[i].temps_trajet >= vehicules[i].temps_trajet]_vars

(* C3 witness: an avancer with delta_t > 0 on a vehicle that had already   *)
(* travelled has added to both counters.                                   *)
C3_Temoin ==
    /\ dernier.op = "avancer" /\ dernier.delta_t > 0
    /\ SurRoute(vehicules[1])
    /\ vehicules[1].vitesse > 0
    /\ vehicules[1].temps_trajet > dernier.delta_t
    /\ vehicules[1].distance_parcourue
          > Min3(vehicules[1].vitesse, LimiteVitesse(vehicules[1].route_actuelle),
                 vehicules[1].vitesse_max) * dernier.delta_t

(* C4, as stated: in every branch of ajuster_vitesse, for any leader and   *)
(* any route, the vitesse assigned is never below 0.                        *)
C4_Original ==
    [][\A i \in Vehs :
          (PasAjuster(i) /\ SurRoute(vehicules[i]))
          => vehicules'[i].vitesse >= 0]_vars

(* C4, amended: ajuster_vitesse leaves vitesse >= 0 in every branch        *)
(* provided that, before the call, the vehicle's own vitesse, the          *)
(* vitesse of the vehicule_devant (when one is passed), the route's        *)
(* limite_vitesse and vitesse_max are all >= 0. Stated from the result: a  *)
(* call that leaves vitesse < 0 on such a vehicle is neither a call        *)
(* without vehicule_devant nor one with a vehicule_devant of vitesse >= 0. *)
C4_VitessePositive ==
    [][\A i \in Vehs :
          (PasAjuster(i) /\ VitesseEffectivePositive(vehicules[i])
             /\ vehicules'[i].vitesse < 0)
          => /\ \A ds \in DistancesSecurite : ~AjusterSeul(i, ds)
             /\ \A pd \in PositionsDevant, vd \in VitessesDevant,
                   ds \in DistancesSecurite :
                      vd >= 0 => ~AjusterDerriere(i, pd, vd, ds)]_vars

(* C4 witness: ajuster_vitesse behind a vehicle has braked the vehicle to  *)
(* a standstill.                                                           *)
C4_Temoin ==
    /\ dernier.op = "ajuster" /\ dernier.devant
    /\ SurRoute(vehicules[1])
    /\ vehicules[1].vitesse = 0
    /\ vehicules[1].temps_trajet > 0

(* The vitesse the car-following rule of C5 gives a vehicle v behind a     *)
(* vehicle at pd running at vd: decided by the gap pd - position alone.    *)
VitesseSelonEcart(v, pd, vd, ds) ==
    LET ecart == pd - v.position
        libre == v.vitesse + 5
        lim == LimiteVitesse(v.route_actuelle)
    IN  IF ecart < ds THEN (IF vd - 10 > 0 THEN vd - 10 ELSE 0)
        ELSE IF ecart < 2 * ds THEN vd
        ELSE IF libre <= lim /\ libre <= v.vitesse_max THEN libre
        ELSE IF lim <= v.vitesse_max THEN lim
        ELSE v.vitesse_max

(* C5, as stated: whenever ajuster_vitesse is called on a vehicle that has *)
(* a route with a vehicule_devant, at any position, the new vitesse is the *)
(* one the gap decides; the acceleration of the branch without leader is   *)
(* never applied.                                                          *)
C5_Original ==
    [][\A i \in Vehs :
          \A pd \in PositionsDevant, vd \in VitessesDevant,
             ds \in DistancesSecurite :
                (SurRoute(vehicules[i]) /\ AjusterDerriere(i, pd, vd, ds))
                => vehicules'[i].vitesse
                      = VitesseSelonEcart(vehicules[i], pd, vd, ds)]_vars

(* C6: ajuster_vitesse without vehicule_devant on a vehicle that has a     *)
(* route sets vitesse to the least of vitesse + 10, the route's            *)
(* limite_vitesse and vitesse_max, so vitesse <= both caps afterwards.     *)
C6_AccelerationLibre ==
    [][\A i \in Vehs :
          (PasAjuster(i) /\ ~dernier'.devant /\ SurRoute(vehicules[i]))
          => LET nv == vehicules'[i].vitesse
                 lim == LimiteVitesse(vehicules[i].route_actuelle)
                 vmax == vehicules[i].vitesse_max
             IN  /\ nv \in {vehicules[i].vitesse + 10, lim, vmax}
                 /\ nv <= vehicules[i].vitesse + 10
                 /\ nv <= lim
                 /\ nv <= vmax]_vars

(* C6 witness: ajuster_vitesse without vehicule_devant has stopped the     *)
(* acceleration at vitesse_max, below the route's limite_vitesse.          *)
C6_Temoin ==
    /\ dernier.op = "ajuster" /\ ~dernier.devant
    /\ SurRoute(vehicules[1])
    /\ vehicules[1].vitesse = vehicules[1].vitesse_max
    /\ vehicules[1].vitesse < LimiteVitesse(vehicules[1].route_actuelle)

(* C7: avancer and ajuster_vitesse (with or without vehicule_devant) on a  *)
(* vehicle whose route_actuelle is None leave every field of it unchanged. *)
C7_SansRouteSansEffet ==
    [][\A i \in Vehs :
          (~SurRoute(vehicules[i]) /\ (PasAvancer(i) \/ PasAjuster(i)))
          => vehicules'[i] = vehicules[i]]_vars

(* C7 witness: avancer with delta_t > 0 has been called on a vehicle       *)
(* without route, whose counters are still at zero.                        *)
C7_Temoin ==
    /\ dernier.op = "avancer" /\ dernier.delta_t > 0
    /\ ~SurRoute(vehicules[1])
    /\ vehicules[1].temps_trajet = 0
    /\ vehicules[1].vitesse # 0

(* C8: changer_de_route(None) returns False and changes nothing: every    *)
(* field of the vehicle keeps its value and no route is called, whether or *)
(* not the vehicle had a route.                                            *)
C8_ChangerNone ==
    [][\A i \in Vehs :
          (PasChanger(i) /\ dernier'.nouvelle_route = None)
          => /\ dernier'.ret = "False"
             /\ vehicules' = vehicules
             /\ compteur_id' = compteur_id
             /\ appels' = <<>>]_vars

(* C8 witness: changer_de_route(None) has returned False on a vehicle that *)
(* is on a route, away from its start.                                     *)
C8_Temoin ==
    /\ dernier.op = "changer" /\ dernier.nouvelle_route = None
    /\ dernier.ret = "False"
    /\ SurRoute(vehicules[1])
    /\ vehicules[1].position # 0
    /\ vehicules[1].temps_trajet > 0

(* C9: changer_de_route(r) with r not None returns True, sets              *)
(* route_actuelle = r and position = 0, and leaves vitesse, vitesse_max,   *)
(* distance_parcourue, temps_trajet (and the identifiant) unchanged, from  *)
(* every state: without route, on another route, or already on r.          *)
C9_ChangerRoute ==
    [][\A i \in Vehs :
          (PasChanger(i) /\ dernier'.nouvelle_route # None)
          => /\ dernier'.ret = "True"
             /\ vehicules'[i].route_actuelle = dernier'.nouvelle_route
             /\ vehicules'[i].position = 0
             /\ vehicules'[i].vitesse = vehicules[i].vitesse
             /\ vehicules'[i].vitesse_max = vehicules[i].vitesse_max
             /\ vehicules'[i].distance_parcourue = vehicules[i].distance_parcourue
             /\ vehicules'[i].temps_trajet = vehicules[i].temps_trajet
             /\ vehicules'[i].identifiant = vehicules[i].identifiant]_vars

(* C9 witness: a vehicle that has travelled has been transferred to the    *)
(* route it was already on (that route was asked to remove it, then to add *)
(* it), and is back at position 0 with its speed and counters.             *)
C9_Temoin ==
    /\ dernier.op = "changer" /\ dernier.ret = "True"
    /\ Len(appels) = 2
    /\ appels[1].route = dernier.nouvelle_route
    /\ vehicules[1].route_actuelle = dernier.nouvelle_route
    /\ vehicules[1].position = 0
    /\ vehicules[1].vitesse > 0
    /\ vehicules[1].distance_parcourue > 0
    /\ vehicules[1].temps_trajet > 0

(* C10: in changer_de_route(r) with r not None, the previous route's       *)
(* retirer_vehicule is called exactly once if there was a previous route   *)
(* and not at all otherwise, r.ajouter_vehicule is called exactly once,    *)
(* after it, and sees the vehicle with route_actuelle = r and position 0.  *)
C10_OrdreDesAppels ==
    [][\A i \in Vehs :
          (PasChanger(i) /\ dernier'.nouvelle_route # None)
          => LET avant == vehicules[i].route_actuelle
                 r == dernier'.nouvelle_route
                 n == Len(appels')
             IN  /\ n = (IF avant # None THEN 2 ELSE 1)
                 /\ appels'[n].hook = "ajouter_vehicule"
                 /\ appels'[n].route = r
                 /\ appels'[n].veh = i
                 /\ appels'[n].route_vue = r
                 /\ appels'[n].position_vue = 0
                 /\ avant # None
                    => /\ appels'[1].hook = "retirer_vehicule"
                       /\ appels'[1].route = avant
                       /\ appels'[1].veh = i]_vars

(* C10 witness: a transfer from one route to another has called the old    *)
(* route's retirer_vehicule, then the new route's ajouter_vehicule.        *)
C10_Temoin ==
    /\ dernier.op = "changer"
    /\ Len(appels) = 2
    /\ appels[1].hook = "retirer_vehicule"
    /\ appels[2].hook = "ajouter_vehicule"
    /\ appels[1].route # appels[2].route
    /\ appels[1].position_vue # 0

(* C11: est_arrive() returns True exactly when route_actuelle is not None *)
(* and position >= route_actuelle.longueur (so never without route), and   *)
(* the call changes no field of the vehicle and nothing of any route.      *)
C11_EstArrive ==
    [][\A i \in Vehs :
          (dernier'.op = "est_arrive" /\ dernier'.veh = i)
          => /\ dernier'.ret \in {"True", "False"}
             /\ dernier'.ret = "True"
                  <=> /\ vehicules[i].route_actuelle # None
                      /\ vehicules[i].position
                            >= Longueur(vehicules[i].route_actuelle)
             /\ vehicules' = vehicules
             /\ membres' = membres
             /\ compteur_id' = compteur_id
             /\ appels' = <<>>]_vars

(* C11 witness: est_arrive has returned True for a vehicle that avancer    *)
(* stopped exactly at the end of its route.                                *)
C11_Temoin ==
    /\ dernier.op = "est_arrive" /\ dernier.ret = "True"
    /\ EnBout(vehicules[1])
    /\ vehicules[1].temps_trajet > 0

C13_Original ==
    \A i \in Vehs :
        (dernier.op = "avancer" /\ dernier.veh = i /\ dernier.delta_t > 0
            /\ SurRoute(vehicules[i]))
        => /\ 0 <= vehicules[i].position
           /\ vehicules[i].position <= Longueur(vehicules[i].route_actuelle)

(* C13, amended: once avancer has been applied to a vehicle that has a     *)
(* route, position <= route_actuelle.longueur in every state reached by    *)
(* avancer, ajuster_vitesse and changer_de_route (avancer establishes it,  *)
(* every call keeps it); and 0 <= position is kept by every call from a    *)
(* state where it holds, provided each avancer has delta_t >= 0 and an     *)
(* effective speed min(vitesse, limite_vitesse, vitesse_max) >= 0.         *)
C13_PositionDansRoute ==
    [][\A i \in Vehs :
          LET v == vehicules[i]
              w == vehicules'[i]
          IN  /\ (SurRoute(w)
                    /\ \/ PasAvancer(i)
                       \/ SurRoute(v) /\ v.position <= Longueur(v.route_actuelle))
                 => w.position <= Longueur(w.route_actuelle)
              /\ (v.position >= 0
                    /\ (PasAvancer(i)
                          => /\ dernier'.delta_t >= 0
                             /\ SurRoute(v) => VitesseEffectivePositive(v)))
                 => w.position >= 0]_vars

(* C13 witness: a vehicle that avancer has moved along a route has been    *)
(* transferred to another, shorter or longer, and then advanced again      *)
(* within it.                                                              *)
C13_Temoin ==
    /\ dernier.op = "avancer" /\ dernier.delta_t > 0
    /\ SurRoute(vehicules[1])
    /\ membres[vehicules[1].route_actuelle] = {1}
    /\ vehicules[1].position > 0
    /\ vehicules[1].position < Longueur(vehicules[1].route_actuelle)
    /\ vehicules[1].distance_parcourue > vehicules[1].position

(* C16: a vehicle gets a route_actuelle only through changer_de_route     *)
(* with an argument that is not None, and once route_actuelle is not None  *)
(* no avancer, ajuster_vitesse, changer_de_route (None or not) or          *)
(* est_arrive makes it None again.                                         *)
C16_RouteSansRetour ==
    [][\A i \in Vehs :
          /\ (~SurRoute(vehicules[i]) /\ SurRoute(vehicules'[i]))
             => (PasChanger(i) /\ dernier'.nouvelle_route # None
                   /\ vehicules'[i].route_actuelle = dernier'.nouvelle_route)
          /\ SurRoute(vehicules[i]) => SurRoute(vehicules'[i])]_vars

(* C16 witness: changer_de_route(None) has been called on a vehicle that   *)
(* an earlier changer_de_route had put on its route, and the vehicle is    *)
(* still on it.                                                            *)
C16_Temoin ==
    /\ dernier.op = "changer" /\ dernier.nouvelle_route = None
    /\ SurRoute(vehicules[1])
    /\ membres[vehicules[1].route_actuelle] = {1}

(* The number a sequence of decimal digits writes. *)
RECURSIVE Valeur(_)
Valeur(ds) ==
    IF ds = <<>> THEN 0
    ELSE 10 * Valeur(SubSeq(ds, 1, Len(ds) - 1)) + ds[Len(ds)]

C17_Original ==
    \A i \in Vehs : \A r \in Routes :
        (i \in membres[r]) <=> (vehicules[i].route_actuelle = r)

(* C15: ajuster_vitesse writes vitesse only: in every call, with or       *)
(* without vehicule_devant, in every branch, the position, odometer,       *)
(* travel time, vitesse_max, route and identifier of the vehicle and every *)
(* field of the other vehicle (the vehicule_devant, when one is passed)    *)
(* are unchanged, and no route is called.                                  *)
C15_AjusterNEcritQueVitesse ==
    [][\A i \in Vehs :
          PasAjuster(i)
          => /\ vehicules' = [vehicules EXCEPT ![i].vitesse = vehicules'[i].vitesse]
             /\ \A j \in Vehs \ {i} : vehicules'[j] = vehicules[j]
             /\ membres' = membres
             /\ compteur_id' = compteur_id
             /\ appels' = <<>>]_vars

(* C15 witness: a vehicle within the safety distance of the other has      *)
(* braked to 10 km/h below the other's speed, which is unchanged.          *)
C15_Temoin ==
    /\ dernier.op = "ajuster" /\ dernier.devant /\ dernier.veh = 1
    /\ SurRoute(vehicules[1])
    /\ vehicules[2].position >= 0
    /\ vehicules[2].position - vehicules[1].position \in 0..2
    /\ vehicules[2].vitesse = 125
    /\ vehicules[1].vitesse = 115

(* C18: a follower never overtakes its leader: from positions with the   *)
(* follower not ahead and non-negative speeds, at the end of every tick    *)
(* of the driver the follower's position is at most the leader's.          *)
C18_Original ==
    vehicules[Suiveur].position <= vehicules[Meneur].position

(* C19: a vehicle with no vehicule_devant, on a route of finite length    *)
(* and positive speed limit, ticked with a fixed delta_t > 0, eventually   *)
(* has est_arrive() true and keeps it true from then on, whatever its      *)
(* initial speed and position.                                             *)
C19_FinitParArriver ==
    <>[]EstArrive(vehicules[1])

(* C19 witness: a vehicle that started before the end of its route has     *)
(* driven to it and is arrived, at the speed limit of the route.           *)
C19_Temoin ==
    /\ dernier.op = "tour"
    /\ EstArrive(vehicules[1])
    /\ vehicules[1].distance_parcourue >= Longueur(vehicules[1].route_actuelle)
    /\ vehicules[1].temps_trajet >= 4
    /\ vehicules[1].vitesse = LimiteVitesse(vehicules[1].route_actuelle)

(* C20: for a vehicle put on a route at position 0 with a zero odometer   *)
(* and a non-negative speed, after any sequence of ajuster_vitesse and     *)
(* avancer(delta_t > 0) calls, distance_parcourue equals position, also    *)
(* once the position has been clamped at the end of the route.             *)
C20_Original ==
    vehicules[1].distance_parcourue = vehicules[1].position

====
